---- MODULE Spec2Model ----
(***************************************************************************)
(* Model of src/yolo_api.py: a Flask service that loads one YOLO detector  *)
(* at import time and serves POST /api/detect and GET /api/ping.           *)
(*                                                                         *)
(* The process is modelled from the top of the module down: device         *)
(* probing (lines 17-22), the single model load (33-41), the warm-up       *)
(* (47-55), and then the request handlers, which the threaded server runs  *)
(* concurrently, one thread per request.  A request slot r of Req is one   *)
(* request thread; the temporary file it creates is named by r, since      *)
(* NamedTemporaryFile hands every caller a fresh name.                     *)
(*                                                                         *)
(* The try statement opened at line 339 has no except or finally clause    *)
(* in the source.  It is modelled as written, a try with no handler: an    *)
(* exception raised inside it leaves detect, skipping the rest of the      *)
(* block.                                                                  *)
(*                                                                         *)
(* Confidences are integers (hundredths), class ids are the integers that  *)
(* r.boxes.cls holds as floats, so that int(c) is c.                       *)
(***************************************************************************)
EXTENDS Integers, Sequences, FiniteSets, TLC

\* ---------------------------------------------------------------- bounds
\* number of request threads in flight over the life of the process
NumReq == 2
\* longest raw detection list the detector returns
MaxDet == 2
\* class ids the detector emits are 0..MaxClassId
MaxClassId == 1
\* confidences the detector emits are CONFIDENCE..CONFIDENCE+MaxConfStep
MaxConfStep == 1

\* ------------------------------------------------------- program constants
\* CONFIDENCE = 0.50, in hundredths
CONFIDENCE == 50
MODEL_PATH == "yolov8n.pt"

VARIABLES
    bootpc,        \* position of the module-level code (lines 17-55)
    DEVICE,        \* lines 17-22: "mps", "cuda" or "cpu", chosen once
    model,         \* lines 35, 40: None, or the loaded detector
    CLASS_NAMES,   \* lines 36, 41: model.names, or {} when the load failed
    loadAttempts,  \* line 35: number of YOLO(...) constructions made so far
    pc,            \* per request thread: its position in the handler
    op,            \* per request thread: the route it serves
    upload,        \* per request thread: request.files (lines 332-337)
    disk,          \* the temporary files that exist (lines 341, 362)
    raw,           \* per request thread: the boxes of results[0] (lines 346, 351-353)
    resp,          \* per request thread: the response the handler returned
    fault          \* per request thread: whether its model call raised (line 345)

vars == <<bootpc, DEVICE, model, CLASS_NAMES, loadAttempts, pc, op, upload, disk, raw, resp, fault>>

Req == 1..NumReq

None == "None"
Loaded == "YOLO"

\* what the checkpoint's names table holds: id 0 is named, the others are not
ModelNames == (0 :> "person")

EmptyDict == [x \in {} |-> 0]

Devices == {"mps", "cuda", "cpu"}

\* the multipart body of a detect request
NoUpload == [field |-> FALSE, filename |-> FALSE, payload |-> "none"]
Payloads == {"image", "empty", "garbage"}
Uploads == {NoUpload} \cup [field : {TRUE}, filename : BOOLEAN, payload : Payloads]

\* the raw detector output: (class id, confidence) pairs in detector order
Detection == [cls : 0..MaxClassId, conf : CONFIDENCE..(CONFIDENCE + MaxConfStep)]
RawDetections == UNION {[1..n -> Detection] : n \in 0..MaxDet}

NoResp == [status |-> 0]
ErrorResp(code, msg) == [status |-> code, body |-> [error |-> msg]]

\* the values the state takes
TypeOK ==
    /\ bootpc \in {"probe", "load", "warmup", "serving"}
    /\ DEVICE \in Devices \cup {None}
    /\ model \in {None, Loaded}
    /\ CLASS_NAMES \in {EmptyDict, ModelNames}
    /\ loadAttempts \in 0..1
    /\ pc \in [Req -> {"idle", "try", "saved", "inferring", "done", "raised"}]
    /\ op \in [Req -> {"none", "detect", "ping"}]
    /\ upload \in [Req -> Uploads]
    /\ disk \subseteq Req
    /\ raw \in [Req -> RawDetections]
    /\ \A r \in Req : resp[r].status \in {0, 200, 400, 500}
    /\ fault \in [Req -> BOOLEAN]

\* ------------------------------------------------------ result post-processing
Reverse(s) == [i \in 1..Len(s) |-> s[Len(s) + 1 - i]]

\* list.sort places an element after every element whose key is not greater
InsertAfterEqual(x, s) ==
    LET k == Cardinality({i \in 1..Len(s) : s[i].conf <= x.conf})
    IN  SubSeq(s, 1, k) \o <<x>> \o SubSeq(s, k + 1, Len(s))

RECURSIVE SortAscending(_, _)
\* the first n elements of s, sorted by confidence ascending, stable
SortAscending(s, n) ==
    IF n = 0 THEN <<>> ELSE InsertAfterEqual(s[n], SortAscending(s, n - 1))

\* a descending sort that sorts ascending and reverses, without the reversal
\* that list.sort makes first: equal keys come out in reverse input order
sortedUnstable(s) == Reverse(SortAscending(s, Len(s)))

\* sorted(zip(cls, conf), key=lambda x: x[1], reverse=True): list.sort with
\* reverse set reverses the list, sorts it ascending and reverses the result
sorted(s) == Reverse(SortAscending(Reverse(s), Len(s)))

\* CLASS_NAMES.get(int(c), f"class_{int(c)}")
Label(names, c) ==
    IF c \in DOMAIN names THEN names[c] ELSE "class_" \o ToString(c)

\* counts[label] = 1: the count is set, not incremented
CountLabelOverwrite(counts, label) == (label :> 1) @@ counts

\* counts[label] = counts.get(label, 0) + 1
CountLabel(counts, label) ==
    IF label \in DOMAIN counts
    THEN [counts EXCEPT ![label] = @ + 1]
    ELSE counts @@ (label :> 1)

RECURSIVE ForLoop(_, _, _)
\* the state of objects and counts after the first n iterations of the loop
ForLoop(items, names, n) ==
    IF n = 0 THEN [objects |-> <<>>, counts |-> EmptyDict]
    ELSE LET before == ForLoop(items, names, n - 1)
             label  == Label(names, items[n].cls)
         IN  [objects |-> Append(before.objects,
                                 [label |-> label, confidence |-> items[n].conf]),
              counts  |-> CountLabel(before.counts, label)]

\* lines 348-359: objects and counts built from the boxes of results[0]
Summarize(boxes, names) ==
    IF Len(boxes) > 0
    THEN ForLoop(sorted(boxes), names, Len(boxes))
    ELSE [objects |-> <<>>, counts |-> EmptyDict]

\* ------------------------------------------------------------- start of process
Init ==
    /\ bootpc = "probe"
    /\ DEVICE = None
    /\ model = None
    /\ CLASS_NAMES = EmptyDict
    /\ loadAttempts = 0
    /\ pc = [r \in Req |-> "idle"]
    /\ op = [r \in Req |-> "none"]
    /\ upload = [r \in Req |-> NoUpload]
    /\ disk = {}
    /\ raw = [r \in Req |-> <<>>]
    /\ resp = [r \in Req |-> NoResp]
    /\ fault = [r \in Req |-> FALSE]

\* lines 17-22: the device is whatever the probing finds first
SelectDevice ==
    /\ bootpc = "probe"
    /\ \E d \in Devices : DEVICE' = d
    /\ bootpc' = "load"
    /\ UNCHANGED <<model, CLASS_NAMES, loadAttempts, pc, op, upload, disk, raw, resp, fault>>

\* lines 33-41: one construction; on an exception model stays None
LoadModel ==
    /\ bootpc = "load"
    /\ loadAttempts' = loadAttempts + 1
    /\ \/ model' = Loaded /\ CLASS_NAMES' = ModelNames
       \/ model' = None /\ CLASS_NAMES' = EmptyDict
    /\ bootpc' = "warmup"
    /\ UNCHANGED <<DEVICE, pc, op, upload, disk, raw, resp, fault>>

\* lines 47-55: the dummy forward pass; its failure (also the AttributeError
\* when model is None) is printed and swallowed
Warmup ==
    /\ bootpc = "warmup"
    /\ bootpc' = "serving"
    /\ UNCHANGED <<DEVICE, model, CLASS_NAMES, loadAttempts, pc, op, upload, disk, raw, resp, fault>>

\* a detect that constructs the model again when it finds it missing
detectReloading(r) ==
    /\ bootpc = "serving"
    /\ pc[r] = "idle"
    /\ model = None
    /\ loadAttempts' = loadAttempts + 1
    /\ \/ model' = Loaded /\ CLASS_NAMES' = ModelNames
       \/ model' = None /\ CLASS_NAMES' = EmptyDict
    /\ op' = [op EXCEPT ![r] = "detect"]
    /\ \E u \in Uploads : upload' = [upload EXCEPT ![r] = u]
    /\ resp' = [resp EXCEPT ![r] = ErrorResp(500, "Model not loaded")]
    /\ pc' = [pc EXCEPT ![r] = "done"]
    /\ UNCHANGED <<bootpc, DEVICE, disk, raw, fault>>

\* ------------------------------------------------------------ POST /api/detect
\* lines 329-337: the checks before the try block, for any multipart body
detect(r) ==
    /\ bootpc = "serving"
    /\ pc[r] = "idle"
    /\ \E u \in Uploads :
        /\ upload' = [upload EXCEPT ![r] = u]
        /\ op' = [op EXCEPT ![r] = "detect"]
        /\ IF model = None
           THEN /\ resp' = [resp EXCEPT ![r] = ErrorResp(500, "Model not loaded")]
                /\ pc' = [pc EXCEPT ![r] = "done"]
           ELSE IF ~u.field
           THEN /\ resp' = [resp EXCEPT ![r] = ErrorResp(400, "No file field 'image'")]
                /\ pc' = [pc EXCEPT ![r] = "done"]
           ELSE IF ~u.filename
           THEN /\ resp' = [resp EXCEPT ![r] = ErrorResp(400, "Empty filename")]
                /\ pc' = [pc EXCEPT ![r] = "done"]
           ELSE /\ resp' = resp
                /\ pc' = [pc EXCEPT ![r] = "try"]
    /\ UNCHANGED <<bootpc, DEVICE, model, CLASS_NAMES, loadAttempts, disk, raw, fault>>

\* lines 341-342: NamedTemporaryFile(delete=False) and f.save(tmp.name)
SaveTemp(r) ==
    /\ pc[r] = "try"
    /\ disk' = disk \cup {r}
    /\ pc' = [pc EXCEPT ![r] = "saved"]
    /\ UNCHANGED <<bootpc, DEVICE, model, CLASS_NAMES, loadAttempts, op, upload, raw, resp, fault>>

\* line 345: the thread enters model(tmp.name, ...); nothing guards the call
CallModel(r) ==
    /\ pc[r] = "saved"
    /\ pc' = [pc EXCEPT ![r] = "inferring"]
    /\ UNCHANGED <<bootpc, DEVICE, model, CLASS_NAMES, loadAttempts, op, upload, disk, raw, resp, fault>>

\* lines 345-367: the call returns boxes for a decodable image; the handler
\* builds objects and counts, unlinks the file and returns the response
ModelReturns(r) ==
    /\ pc[r] = "inferring"
    /\ upload[r].payload = "image"
    /\ \E boxes \in RawDetections :
        /\ raw' = [raw EXCEPT ![r] = boxes]
        /\ resp' = [resp EXCEPT ![r] =
                      [status |-> 200, body |-> Summarize(boxes, CLASS_NAMES)]]
    /\ disk' = disk \ {r}
    /\ pc' = [pc EXCEPT ![r] = "done"]
    /\ UNCHANGED <<bootpc, DEVICE, model, CLASS_NAMES, loadAttempts, op, upload, fault>>

\* line 345: the call raises (always so for bytes that are no image, possibly
\* for an image); the try has no handler, so the exception leaves detect
\* with the rest of the block, os.unlink included, not run
ModelRaises(r) ==
    /\ pc[r] = "inferring"
    /\ fault' = [fault EXCEPT ![r] = TRUE]
    /\ pc' = [pc EXCEPT ![r] = "raised"]
    /\ UNCHANGED <<bootpc, DEVICE, model, CLASS_NAMES, loadAttempts, op, upload, disk, raw, resp>>

\* a ping that touches the lifecycle: it constructs the model when it is missing
pingReloading(r) ==
    /\ bootpc = "serving"
    /\ pc[r] = "idle"
    /\ op' = [op EXCEPT ![r] = "ping"]
    /\ resp' = [resp EXCEPT ![r] =
                  [status |-> 200,
                   body |-> [status |-> "ok", device |-> DEVICE, model |-> MODEL_PATH,
                             model_loaded |-> (model # None)]]]
    /\ pc' = [pc EXCEPT ![r] = "done"]
    /\ IF model = None
       THEN /\ model' = Loaded
            /\ CLASS_NAMES' = ModelNames
            /\ loadAttempts' = loadAttempts + 1
       ELSE UNCHANGED <<model, CLASS_NAMES, loadAttempts>>
    /\ UNCHANGED <<bootpc, DEVICE, upload, disk, raw, fault>>

\* ---------------------------------------------------------------- GET /api/ping
\* lines 369-376
ping(r) ==
    /\ bootpc = "serving"
    /\ pc[r] = "idle"
    /\ op' = [op EXCEPT ![r] = "ping"]
    /\ resp' = [resp EXCEPT ![r] =
                  [status |-> 200,
                   body |-> [status |-> "ok", device |-> DEVICE, model |-> MODEL_PATH,
                             model_loaded |-> (model # None)]]]
    /\ pc' = [pc EXCEPT ![r] = "done"]
    /\ UNCHANGED <<bootpc, DEVICE, model, CLASS_NAMES, loadAttempts, upload, disk, raw, fault>>

Next ==
    \/ SelectDevice
    \/ LoadModel
    \/ Warmup
    \/ \E r \in Req : detect(r)
    \/ \E r \in Req : SaveTemp(r)
    \/ \E r \in Req : CallModel(r)
    \/ \E r \in Req : ModelReturns(r)
    \/ \E r \in Req : ModelRaises(r)
    \/ \E r \in Req : ping(r)

Spec == Init /\ [][Next]_vars

\* ------------------------------------------------------------------ properties
Finished(r) == pc[r] \in {"done", "raised"}
DetectFinished(r) == op[r] = "detect" /\ Finished(r)
DetectSucceeded(r) == op[r] = "detect" /\ pc[r] = "done" /\ resp[r].status = 200

RECURSIVE SumValues(_, _)
\* sum(d.values()) over the keys in ks
SumValues(d, ks) ==
    IF ks = {} THEN 0
    ELSE LET k == CHOOSE x \in ks : TRUE IN d[k] + SumValues(d, ks \ {k})

\* C1: once a detect request that created its temporary file has completed,
\* normally or by an exception of the model call, the file is not on disk.
C1_TempFileReleased ==
    \A r \in Req : DetectFinished(r) => r \notin disk

\* C2: for a non-empty raw detection list, objects is the raw list ordered by
\* confidence descending, entries of equal confidence in their raw order:
\* some permutation p of the raw indices gives objects, with p ordering by
\* (confidence descending, raw index ascending).
C2_SortedDescendingStable ==
    \A r \in Req :
        (DetectSucceeded(r) /\ Len(raw[r]) > 0) =>
            LET boxes == raw[r]
                objs  == resp[r].body.objects
                n     == Len(boxes)
            IN  /\ Len(objs) = n
                /\ \E p \in [1..n -> 1..n] :
                    /\ \A i, j \in 1..n : i # j => p[i] # p[j]
                    /\ \A i \in 1..n :
                        /\ objs[i].confidence = boxes[p[i]].conf
                        /\ objs[i].label = Label(CLASS_NAMES, boxes[p[i]].cls)
                    /\ \A i, j \in 1..n : i < j =>
                        \/ boxes[p[i]].conf > boxes[p[j]].conf
                        \/ boxes[p[i]].conf = boxes[p[j]].conf /\ p[i] < p[j]

\* a response built from two detections of equal confidence and different class
C2_Witness ==
    \E r \in Req :
        /\ DetectSucceeded(r)
        /\ Len(raw[r]) = 2
        /\ raw[r][1].conf = raw[r][2].conf
        /\ raw[r][1].cls # raw[r][2].cls
        /\ resp[r].body.objects[1].label # resp[r].body.objects[2].label

\* C3: in every successful detect response the counts add up to the number
\* of objects, the empty response and fallback labels included.
C3_CountsSumToObjects ==
    \A r \in Req :
        DetectSucceeded(r) =>
            SumValues(resp[r].body.counts, DOMAIN resp[r].body.counts)
                = Len(resp[r].body.objects)

\* a response that counts a class id with no name twice, under its fallback label
C3_Witness ==
    \E r \in Req :
        /\ DetectSucceeded(r)
        /\ \E i \in 1..Len(raw[r]) : raw[r][i].cls \notin DOMAIN CLASS_NAMES
        /\ "class_1" \in DOMAIN resp[r].body.counts
        /\ resp[r].body.counts["class_1"] = 2

\* C4: a detect request without the image field is answered 400 with the
\* message "No file field 'image'", whether the model loaded or not.
C4_MissingFieldIs400 ==
    \A r \in Req :
        (DetectFinished(r) /\ ~upload[r].field) =>
            /\ pc[r] = "done"
            /\ resp[r].status = 400
            /\ resp[r].body.error = "No file field 'image'"

\* C5: an exception of the model call is caught inside detect, which answers
\* 500 with an error body; the exception does not leave detect.
C5_ModelFaultAnswered500 ==
    \A r \in Req :
        fault[r] =>
            /\ pc[r] = "done"
            /\ resp[r].status = 500
            /\ "error" \in DOMAIN resp[r].body

\* C6: a detect request whose image field is present and holds zero bytes is
\* answered 400 with a message other than the missing-field one, with or
\* without a filename (stated for a loaded model, where nothing else can
\* decide the status).
C6_EmptyPayloadIs400 ==
    \A r \in Req :
        (DetectFinished(r) /\ model # None
            /\ upload[r].field /\ upload[r].payload = "empty") =>
            /\ pc[r] = "done"
            /\ resp[r].status = 400
            /\ resp[r].body.error # "No file field 'image'"

\* C7: with the model loaded, a detect request whose image field holds bytes
\* that are no image is answered 400.
C7_UndecodableIs400 ==
    \A r \in Req :
        (DetectFinished(r) /\ model # None
            /\ upload[r].field /\ upload[r].payload = "garbage") =>
            /\ pc[r] = "done"
            /\ resp[r].status = 400

\* the step in which request thread r is served by ping
PingStep(r) == pc[r] = "idle" /\ pc'[r] = "done" /\ op'[r] = "ping"

\* C8: ping can be served in every state of the serving process, answers 200
\* with status "ok" and model_loaded telling whether the model is loaded, and
\* changes nothing but the request's own response.
C8_PingReflectsAndPreserves ==
    /\ [](\A r \in Req : (bootpc = "serving" /\ pc[r] = "idle") => ENABLED ping(r))
    /\ [][\A r \in Req : PingStep(r) =>
            /\ resp'[r].status = 200
            /\ resp'[r].body.status = "ok"
            /\ resp'[r].body.model_loaded = (model = Loaded)
            /\ UNCHANGED <<bootpc, DEVICE, model, CLASS_NAMES, loadAttempts,
                           upload, disk, raw, fault>>
            /\ \A q \in Req \ {r} :
                pc'[q] = pc[q] /\ op'[q] = op[q] /\ resp'[q] = resp[q]]_vars

\* a ping answered model_loaded false after the load failed
C8_Witness ==
    \E r \in Req :
        /\ op[r] = "ping"
        /\ pc[r] = "done"
        /\ model = None
        /\ resp[r].status = 200
        /\ resp[r].body.model_loaded = FALSE

\* C9: the model is constructed once, by the module-level code; model and the
\* number of constructions never change once requests are served, and after a
\* failed load a detect request is answered 500 "Model not loaded" at once.
C9_SingleLoadNoReload ==
    /\ [](/\ loadAttempts <= 1
          /\ bootpc \in {"warmup", "serving"} => loadAttempts = 1)
    /\ [][/\ (model' # model \/ loadAttempts' # loadAttempts) => bootpc = "load"
          /\ \A r \in Req :
                (model = None /\ pc[r] = "idle" /\ op'[r] = "detect") =>
                    /\ pc'[r] = "done"
                    /\ resp'[r] = ErrorResp(500, "Model not loaded")
                    /\ model' = None]_vars

\* the load failed and every request thread got its detect answered 500
C9_Witness ==
    /\ model = None
    /\ loadAttempts = 1
    /\ \A r \in Req :
        /\ op[r] = "detect"
        /\ pc[r] = "done"
        /\ resp[r].status = 500

\* C10: no two request threads are inside the model call at the same time.
C10_InferenceSerialized ==
    \A r, q \in Req :
        r # q => ~(pc[r] = "inferring" /\ pc[q] = "inferring")

====
